---- MODULE Spec2Model ----
(***************************************************************************)
(* A model of the HDC1080 temperature / humidity driver (src/hdc1080.py).  *)
(*                                                                         *)
(* The driver object, the I2C transport it is handed and the device behind *)
(* it are one state machine.  Every method of class HDC1080 is a straight  *)
(* line of statements; each method is written below as the sequence of its *)
(* statements (its "program") and the actions execute one statement at a   *)
(* time, so that a failing bus transfer can end a method half way, as a    *)
(* Python exception does.                                                  *)
(***************************************************************************)
EXTENDS Integers, Sequences, FiniteSets, TLC

VARIABLES
    scan,         \* what i2c.scan() returns: the set of responding addresses
    regs,         \* the device's registers: pointer -> 16-bit content
    devPtr,       \* the device's pointer register
    pc,           \* "new": no driver object; "idle": between calls; "running"
    ip,           \* index of the next statement of the running method
    cur,          \* the method being run / last run, and its argument
    prev,         \* the method run before it, with its outcome
    cfg0,         \* the configuration register's content when cur was called
    log,          \* the transport calls made by cur, in order
    outcome,      \* "none" while running, "ok", or the exception raised
    returned,     \* TRUE once cur has executed its return statement
    retval,       \* the value returned, as the rational num/den
    acc,          \* the integer local of the read methods (serial_number, ...)
    config_data,  \* the bytearray local of the configuration setters
    addr          \* self.addr (0 until __init__ has set it)

vars == <<scan, regs, devPtr, pc, ip, cur, prev, cfg0, log, outcome, returned,
          retval, acc, config_data, addr>>

----------------------------------------------------------------------------
(* Module constants, hdc1080.py lines 9-37.                                *)

HDC1080_ADDR == 64

TEMP_REG == 0

HUMI_REG == 1

CONF_REG == 2

FSER_REG == 251

MSER_REG == 252

LSER_REG == 253

MFID_REG == 254

DVID_REG == 255

HDC1080_CONFIG_RESET_BIT == 32768

HDC1080_CONFIG_HEATER_ENABLE == 8192

HDC1080_CONFIG_ACQUISITION_MODE == 4096

HDC1080_CONFIG_TEMPERATURE_RESOLUTION == 1024

HDC1080_CONFIG_HUMIDITY_RESOLUTION_HBIT == 512

HDC1080_CONFIG_HUMIDITY_RESOLUTION_LBIT == 256

HDC1080_CONFIG_TEMPERATURE_RESOLUTION_14BIT == 0

HDC1080_CONFIG_TEMPERATURE_RESOLUTION_11BIT == 1024

HDC1080_CONFIG_HUMIDITY_RESOLUTION_14BIT == 0

HDC1080_CONFIG_HUMIDITY_RESOLUTION_11BIT == 256

HDC1080_CONFIG_HUMIDITY_RESOLUTION_8BIT == 512

----------------------------------------------------------------------------
(* Bounds of the model.                                                    *)

\* The temperature register holds 0, 65535 or one of NumRawSamples other words.
NumRawSamples == 2

\* The addresses on the bus: the sensor's and one more.
Addrs == {HDC1080_ADDR, HDC1080_ADDR + 1}

Word16 == 0 .. 65535

\* Contents of the humidity register.
HumiditySamples == {0, 40000}

\* Contents of the temperature register.
RawSamples == {0, 65535} \cup {(k * 21845 + 4386) % 65536 : k \in 0 .. (NumRawSamples - 1)}

\* Serial-number segments the device may hold: (s0, s1, s2).
SerialSamples == {<<4386, 13124, 21862>>, <<1, 65535, 256>>}

\* Contents of the configuration register before the driver is constructed.
ConfigSamples == {4096, 0, 13824}

----------------------------------------------------------------------------
(* Integers as bytes and bit fields.                                       *)

\* int.from_bytes(b, "big") of a two-byte buffer
FromBytesBig(b) == b[1] * 256 + b[2]

\* the two bytes of a 16-bit register content, high byte first
ToBytesBig(w) == <<w \div 256, w % 256>>

\* bit m (a power of two) of w
Bit(w, m) == (w \div m) % 2

\* MicroPython stores the low eight bits of an integer assigned to a
\* bytearray item
ByteStore(v) == v % 256

None == [num |-> 0, den |-> 1]

IntVal(v) == [num |-> v, den |-> 1]

\* raw * 165 / 65536 - 40 as a rational number over 65536 (line 72)
Celsius_wrong(raw) == [num |-> raw * 165 - 40 * 65535, den |-> 65535]

Celsius(raw) == [num |-> raw * 165 - 40 * 65536, den |-> 65536]

\* raw / 65536 * 100 as a rational number over 65536 (line 80)
Humidity(raw) == [num |-> raw * 100, den |-> 65536]

----------------------------------------------------------------------------
(* Statements.  A method is the sequence of its statements.                *)

\* self.i2c.writeto(self.addr, bytes)
WriteTo(bytes) == [i |-> "write", bytes |-> bytes, how |-> "", ms |-> 0]

\* ... self.i2c.readfrom(self.addr, 2) ..., and what is done with the integer
\* int.from_bytes(..., "big") of the bytes read:
\*   "set"   x = value            "shift"  x = x * 256 + value
ReadFrom(how) == [i |-> "read", bytes |-> <<>>, how |-> how, ms |-> 0]

\* assert slave_addr in self.i2c.scan(); self.addr = slave_addr
AssertScan == [i |-> "assert", bytes |-> <<>>, how |-> "", ms |-> 0]

\* sleep(ms / 1000)
Sleep(ms) == [i |-> "sleep", bytes |-> <<>>, how |-> "", ms |-> ms]

\* config_data = bytearray(3); config_data[0] = CONF_REG
Alloc == [i |-> "alloc", bytes |-> <<>>, how |-> "", ms |-> 0]

\* config_data[1] = <the integer just read>
Store == [i |-> "store", bytes |-> <<>>, how |-> "", ms |-> 0]

\* config_data | int, config_data & int: a bytearray and an integer have no
\* bitwise operators, the expression raises TypeError
BytearrayBitop == [i |-> "raise", bytes |-> <<>>, how |-> "TypeError", ms |-> 0]

\* return <value>: "none", "int", "celsius", "humidity"
Return(how) == [i |-> "return", bytes |-> <<>>, how |-> how, ms |-> 0]

HDC1080_init_unchecked ==
    <<Sleep(15), WriteTo(<<CONF_REG, 16, 0>>), Return("none")>>

\* lines 41-60: data = bytearray(3); data[0] = CONF_REG; data[1] = 1 << 4
HDC1080_init ==
    <<AssertScan, Sleep(15), WriteTo(<<CONF_REG, 16, 0>>), Return("none")>>

read_temperature ==
    <<WriteTo(<<TEMP_REG>>), ReadFrom("set"), Return("celsius")>>

read_humidity_noptr ==
    <<ReadFrom("set"), Return("humidity")>>

read_humidity ==
    <<WriteTo(<<HUMI_REG>>), ReadFrom("set"), Return("humidity")>>

read_configuration_register ==
    <<WriteTo(<<CONF_REG>>), ReadFrom("set"), Return("int")>>

\* lines 87-93.  Line 91 raises; line 92 (a write through the undefined
\* global i2c) is never reached.
turnHeaterOn ==
    <<Alloc, WriteTo(<<CONF_REG>>), ReadFrom("set"), Store, BytearrayBitop>>

\* lines 95-101, likewise
turnHeaterOff ==
    <<Alloc, WriteTo(<<CONF_REG>>), ReadFrom("set"), Store, BytearrayBitop>>

\* lines 103-109, likewise; the argument is not used before line 107 raises
setHumidityResolution(resolution) ==
    <<Alloc, WriteTo(<<CONF_REG>>), ReadFrom("set"), Store, BytearrayBitop>>

\* lines 111-117, likewise
setTemperatureResolution(resolution) ==
    <<Alloc, WriteTo(<<CONF_REG>>), ReadFrom("set"), Store, BytearrayBitop>>

readManufacturerID ==
    <<WriteTo(<<MFID_REG>>), ReadFrom("set"), Return("int")>>

readDeviceID_wrong ==
    <<WriteTo(<<DVID_REG - 5>>), ReadFrom("set"), Return("int")>>

readDeviceID ==
    <<WriteTo(<<DVID_REG>>), ReadFrom("set"), Return("int")>>

readSerialNumber ==
    <<WriteTo(<<FSER_REG>>), ReadFrom("set"),
      WriteTo(<<MSER_REG>>), ReadFrom("shift"),
      WriteTo(<<LSER_REG>>), ReadFrom("shift"),
      Return("int")>>

\* The methods a caller may invoke on a constructed driver, with the
\* arguments tried.
Methods ==
    {[op |-> o, arg |-> 0] :
        o \in {"read_temperature", "read_humidity", "read_configuration_register",
               "turnHeaterOn", "turnHeaterOff", "readManufacturerID",
               "readDeviceID", "readSerialNumber"}}
    \cup {[op |-> "setHumidityResolution", arg |-> r] :
        r \in {HDC1080_CONFIG_HUMIDITY_RESOLUTION_14BIT,
               HDC1080_CONFIG_HUMIDITY_RESOLUTION_11BIT,
               HDC1080_CONFIG_HUMIDITY_RESOLUTION_8BIT}}
    \cup {[op |-> "setTemperatureResolution", arg |-> r] :
        r \in {HDC1080_CONFIG_TEMPERATURE_RESOLUTION_14BIT,
               HDC1080_CONFIG_TEMPERATURE_RESOLUTION_11BIT}}

Program(c) ==
    CASE c.op = "__init__" -> HDC1080_init
      [] c.op = "read_temperature" -> read_temperature
      [] c.op = "read_humidity" -> read_humidity
      [] c.op = "read_configuration_register" -> read_configuration_register
      [] c.op = "turnHeaterOn" -> turnHeaterOn
      [] c.op = "turnHeaterOff" -> turnHeaterOff
      [] c.op = "setHumidityResolution" -> setHumidityResolution(c.arg)
      [] c.op = "setTemperatureResolution" -> setTemperatureResolution(c.arg)
      [] c.op = "readManufacturerID" -> readManufacturerID
      [] c.op = "readDeviceID" -> readDeviceID
      [] c.op = "readSerialNumber" -> readSerialNumber
      [] OTHER -> <<>>

\* the statement about to be executed
Stmt == Program(cur)[ip]

AtStmt(kind) ==
    /\ pc = "running"
    /\ ip \in 1 .. Len(Program(cur))
    /\ Stmt.i = kind

----------------------------------------------------------------------------
(* The device behind the transport.                                        *)

RegValue(p) == IF p \in DOMAIN regs THEN regs[p] ELSE 0

\* A write's first byte sets the pointer; two more bytes are stored in the
\* register it points to.
DevAfterWrite(bytes) ==
    IF Len(bytes) = 3 /\ bytes[1] \in DOMAIN regs
    THEN [regs EXCEPT ![bytes[1]] = FromBytesBig(<<bytes[2], bytes[3]>>)]
    ELSE regs

\* A two-byte read returns the register the pointer selects.
DevRead == ToBytesBig(RegValue(devPtr))

Entry(kind, a, bytes, ok, ms) ==
    [kind |-> kind, addr |-> a, bytes |-> bytes, ok |-> ok, ms |-> ms]

----------------------------------------------------------------------------
(* The state before the driver is constructed.                             *)

NoCall == [op |-> "none", arg |-> 0]

InitDevice ==
    /\ scan \in SUBSET Addrs
    /\ \E t \in RawSamples, h \in HumiditySamples, c \in ConfigSamples, s \in SerialSamples :
         regs = (TEMP_REG :> t) @@ (HUMI_REG :> h) @@ (CONF_REG :> c)
                @@ (FSER_REG :> s[1]) @@ (MSER_REG :> s[2]) @@ (LSER_REG :> s[3])
                @@ (MFID_REG :> 21577) @@ (DVID_REG :> 4176)
    /\ devPtr = TEMP_REG

InitDriver ==
    /\ pc = "new"
    /\ ip = 1
    /\ cur = NoCall
    /\ prev = [op |-> "none", arg |-> 0, outcome |-> "none", cfg0 |-> 0]
    /\ cfg0 = 0
    /\ log = <<>>
    /\ outcome = "none"
    /\ returned = FALSE
    /\ retval = None
    /\ acc = 0
    /\ config_data = <<>>
    /\ addr = 0

Init == InitDevice /\ InitDriver

----------------------------------------------------------------------------
(* Calls.                                                                  *)

Enter(c) ==
    /\ prev' = [op |-> cur.op, arg |-> cur.arg, outcome |-> outcome, cfg0 |-> cfg0]
    /\ cur' = c
    /\ cfg0' = regs[CONF_REG]
    /\ pc' = "running"
    /\ ip' = 1
    /\ log' = <<>>
    /\ outcome' = "none"
    /\ returned' = FALSE
    /\ retval' = None
    /\ acc' = 0
    /\ config_data' = <<>>
    /\ UNCHANGED <<scan, regs, devPtr>>

\* sensor = HDC1080(i2c, slave_addr)
Construct ==
    /\ pc = "new"
    /\ \E a \in Addrs : Enter([op |-> "__init__", arg |-> a])
    /\ addr' = 0

\* sensor.<method>(<argument>)
Call ==
    /\ pc = "idle"
    /\ \E c \in Methods : Enter(c)
    /\ UNCHANGED addr

\* An exception leaves the method; one raised by __init__ leaves no driver.
Raise(exc) ==
    /\ outcome' = exc
    /\ pc' = IF cur.op = "__init__" THEN "new" ELSE "idle"
    /\ UNCHANGED <<ip, returned, retval>>

Continue ==
    /\ ip' = ip + 1
    /\ UNCHANGED <<pc, outcome, returned, retval>>

----------------------------------------------------------------------------
(* Statements.                                                             *)

\* line 48-49
StepAssertScan ==
    /\ AtStmt("assert")
    /\ log' = Append(log, Entry("scan", 0, <<>>, TRUE, 0))
    /\ IF cur.arg \in scan
       THEN addr' = cur.arg /\ Continue
       ELSE addr' = addr /\ Raise("AssertionError")
    /\ UNCHANGED <<scan, regs, devPtr, cur, prev, cfg0, acc, config_data>>

\* line 54
StepSleep ==
    /\ AtStmt("sleep")
    /\ log' = Append(log, Entry("sleep", 0, <<>>, TRUE, Stmt.ms))
    /\ Continue
    /\ UNCHANGED <<scan, regs, devPtr, cur, prev, cfg0, acc, config_data, addr>>

\* i2c.writeto: the transfer succeeds, and the device takes the bytes, or it
\* fails and writeto raises OSError.
StepWriteTo ==
    /\ AtStmt("write")
    /\ \E ok \in BOOLEAN :
         /\ log' = Append(log, Entry("write", addr, Stmt.bytes, ok, 0))
         /\ IF ok
            THEN /\ devPtr' = Stmt.bytes[1]
                 /\ regs' = DevAfterWrite(Stmt.bytes)
                 /\ Continue
            ELSE /\ UNCHANGED <<devPtr, regs>>
                 /\ Raise("OSError")
    /\ UNCHANGED <<scan, cur, prev, cfg0, acc, config_data, addr>>

\* i2c.readfrom(self.addr, 2) and int.from_bytes(..., "big")
StepReadFrom_swallow ==
    /\ AtStmt("read")
    /\ \E ok \in BOOLEAN :
         /\ log' = Append(log, Entry("read", addr, IF ok THEN DevRead ELSE <<>>, ok, 0))
         /\ acc' = IF ok THEN FromBytesBig(DevRead) ELSE acc
         /\ Continue
    /\ UNCHANGED <<scan, regs, devPtr, cur, prev, cfg0, config_data, addr>>

StepReadFrom ==
    /\ AtStmt("read")
    /\ \E ok \in BOOLEAN :
         /\ log' = Append(log, Entry("read", addr, IF ok THEN DevRead ELSE <<>>, ok, 0))
         /\ IF ok
            THEN /\ acc' = (IF Stmt.how = "shift" THEN acc * 256 ELSE 0)
                            + FromBytesBig(DevRead)
                 /\ Continue
            ELSE /\ acc' = acc
                 /\ Raise("OSError")
    /\ UNCHANGED <<scan, regs, devPtr, cur, prev, cfg0, config_data, addr>>

\* config_data = bytearray(3); config_data[0] = CONF_REG
StepAlloc ==
    /\ AtStmt("alloc")
    /\ config_data' = <<CONF_REG, 0, 0>>
    /\ Continue
    /\ UNCHANGED <<scan, regs, devPtr, cur, prev, cfg0, log, acc, addr>>

\* config_data[1] = self.read_configuration_register()
StepStore ==
    /\ AtStmt("store")
    /\ config_data' = [config_data EXCEPT ![2] = ByteStore(acc)]
    /\ Continue
    /\ UNCHANGED <<scan, regs, devPtr, cur, prev, cfg0, log, acc, addr>>

\* the right-hand sides of lines 91, 99, 107 and 115
StepRaise ==
    /\ AtStmt("raise")
    /\ Raise(Stmt.how)
    /\ UNCHANGED <<scan, regs, devPtr, cur, prev, cfg0, log, acc, config_data, addr>>

ReturnValue(how) ==
    CASE how = "celsius" -> Celsius(acc)
      [] how = "humidity" -> Humidity(acc)
      [] how = "int" -> IntVal(acc)
      [] OTHER -> None

StepReturn ==
    /\ AtStmt("return")
    /\ retval' = ReturnValue(Stmt.how)
    /\ returned' = TRUE
    /\ outcome' = "ok"
    /\ pc' = "idle"
    /\ UNCHANGED <<scan, regs, devPtr, ip, cur, prev, cfg0, log, acc, config_data, addr>>

Next ==
    \/ Construct
    \/ Call
    \/ StepAssertScan
    \/ StepSleep
    \/ StepWriteTo
    \/ StepReadFrom
    \/ StepAlloc
    \/ StepStore
    \/ StepRaise
    \/ StepReturn

Spec == Init /\ [][Next]_vars

----------------------------------------------------------------------------
(* The conversion of read_temperature over every 16-bit reading: the       *)
(* driver has just been constructed at the default address, the            *)
(* temperature register holds any word, and the caller reads the           *)
(* temperature again and again.                                            *)

InitConv ==
    /\ scan = {HDC1080_ADDR}
    /\ \E t \in Word16 :
         regs = (TEMP_REG :> t) @@ (HUMI_REG :> 0) @@ (CONF_REG :> 4096)
                @@ (FSER_REG :> 4386) @@ (MSER_REG :> 13124) @@ (LSER_REG :> 21862)
                @@ (MFID_REG :> 21577) @@ (DVID_REG :> 4176)
    /\ devPtr = CONF_REG
    /\ pc = "idle"
    /\ ip = 4
    /\ cur = [op |-> "__init__", arg |-> HDC1080_ADDR]
    /\ prev = [op |-> "none", arg |-> 0, outcome |-> "none", cfg0 |-> 0]
    /\ cfg0 = 4096
    /\ log = <<Entry("scan", 0, <<>>, TRUE, 0), Entry("sleep", 0, <<>>, TRUE, 15),
              Entry("write", HDC1080_ADDR, <<CONF_REG, 16, 0>>, TRUE, 0)>>
    /\ outcome = "ok"
    /\ returned = TRUE
    /\ retval = None
    /\ acc = 0
    /\ config_data = <<>>
    /\ addr = HDC1080_ADDR

\* sensor.read_temperature()
CallReadTemperature ==
    /\ pc = "idle"
    /\ Enter([op |-> "read_temperature", arg |-> 0])
    /\ UNCHANGED addr

NextConv ==
    \/ CallReadTemperature
    \/ StepWriteTo
    \/ StepReadFrom
    \/ StepReturn

SpecConv == InitConv /\ [][NextConv]_vars

----------------------------------------------------------------------------
(* Vocabulary of the properties.                                           *)

\* the documented register pointers (spec section 6, register map)
DocumentedPointers == {0, 1, 2, 251, 252, 253, 254, 255}

\* cur has ended, by a return or by an exception
Finished == cur.op # "none" /\ pc # "running" /\ outcome # "none"

\* positions in the log of the bus transactions: writes and reads
WriteIdx == {i \in 1 .. Len(log) : log[i].kind = "write"}

ReadIdx == {i \in 1 .. Len(log) : log[i].kind = "read"}

SleepIdx == {i \in 1 .. Len(log) : log[i].kind = "sleep"}

NoBusFailure == \A i \in 1 .. Len(log) : log[i].ok

ReadOps == {"read_temperature", "read_humidity", "read_configuration_register",
            "readManufacturerID", "readDeviceID", "readSerialNumber"}

----------------------------------------------------------------------------
(* C1 *)

C1_WitnessPresent ==
    /\ Finished /\ cur.op = "__init__" /\ cur.arg \in scan
    /\ outcome = "ok" /\ Len(log) = 3 /\ log[3].bytes = <<2, 16, 0>>

----------------------------------------------------------------------------
(* C2 *)

\* C2, as stated: every read operation that has returned has issued exactly two
\* bus transactions, a pointer write followed by a data read, with a delay
\* between the two.
C2_AsStated ==
    (Finished /\ cur.op \in ReadOps /\ outcome = "ok") =>
        /\ Cardinality(WriteIdx \cup ReadIdx) = 2
        /\ \E w \in WriteIdx, r \in ReadIdx :
              /\ w < r
              /\ Len(log[w].bytes) = 1
              /\ \E d \in SleepIdx : w < d /\ d < r /\ log[d].ms > 0

----------------------------------------------------------------------------
(* C3 *)

\* c with the heater-enable bit as requested and every other bit as in c
WithHeater(c, enabled) ==
    c - Bit(c, 8192) * 8192 + (IF enabled THEN 8192 ELSE 0)

\* C3, as stated: when turnHeaterOn / turnHeaterOff has ended without a bus
\* failure, it has completed, having issued a single 3-byte write
\* [0x02, high, low] whose word is the configuration word held at the call, with
\* bit 0x2000 set or cleared and every other bit unchanged, and the device
\* holds that word.
C3_AsStated ==
    (Finished /\ cur.op \in {"turnHeaterOn", "turnHeaterOff"} /\ NoBusFailure) =>
        LET want == WithHeater(cfg0, cur.op = "turnHeaterOn")
            w3 == {i \in WriteIdx : Len(log[i].bytes) = 3}
        IN  /\ outcome = "ok"
            /\ Cardinality(w3) = 1
            /\ \A i \in w3 : log[i].bytes = <<2, want \div 256, want % 256>>
            /\ regs[CONF_REG] = want

----------------------------------------------------------------------------
(* C4 *)

\* C4, as stated: when setHumidityResolution(8bit) and then
\* setHumidityResolution(14bit) have run without a bus failure, both have
\* completed, the humidity-resolution field (bits 0x0300) of the device's
\* configuration word is 0b00 and its temperature-resolution bit (0x0400) has
\* the value it had before the two calls.
C4_AsStated ==
    ( /\ Finished /\ cur = [op |-> "setHumidityResolution", arg |-> 0]
      /\ NoBusFailure
      /\ prev.op = "setHumidityResolution" /\ prev.arg = 512
      /\ prev.outcome # "OSError" ) =>
        /\ prev.outcome = "ok"
        /\ outcome = "ok"
        /\ (regs[CONF_REG] \div 256) % 4 = 0
        /\ Bit(regs[CONF_REG], 1024) = Bit(prev.cfg0, 1024)

----------------------------------------------------------------------------
(* C5 *)

\* C5, as stated: the value readSerialNumber returns is the big-endian
\* concatenation of the three 16-bit segments read from 0xFB, 0xFC, 0xFD:
\* written in base 65536 its digits are s0, s1, s2.
C5_AsStated ==
    (cur.op = "readSerialNumber" /\ returned) =>
        LET s0 == FromBytesBig(log[2].bytes)
            s1 == FromBytesBig(log[4].bytes)
            s2 == FromBytesBig(log[6].bytes)
        IN  /\ retval.den = 1
            /\ retval.num % 65536 = s2
            /\ (retval.num \div 65536) % 65536 = s1
            /\ (retval.num \div 65536) \div 65536 = s0

----------------------------------------------------------------------------
(* C6 *)

\* C6, as stated: the configuration write of a successful construction is a
\* 3-byte frame [0x02, high, low] whose word has the acquisition-mode bit
\* 0x1000, the temperature-resolution bit 0x0400, the humidity-resolution bits
\* 0x0300, the reset bit 0x8000 and the heater bit 0x2000 all clear.
C6_AsStated ==
    (Finished /\ cur.op = "__init__" /\ outcome = "ok") =>
        \A i \in WriteIdx :
            /\ Len(log[i].bytes) = 3
            /\ log[i].bytes[1] = 2
            /\ LET w == FromBytesBig(<<log[i].bytes[2], log[i].bytes[3]>>)
               IN  /\ Bit(w, 4096) = 0
                   /\ Bit(w, 1024) = 0
                   /\ Bit(w, 512) = 0
                   /\ Bit(w, 256) = 0
                   /\ Bit(w, 32768) = 0
                   /\ Bit(w, 8192) = 0

----------------------------------------------------------------------------
(* C7 *)

\* C7: in every reachable state the first byte of every bus write the driver
\* has issued is one of the eight documented register pointers.
C7_OnlyDocumentedPointers ==
    \A i \in WriteIdx :
        /\ Len(log[i].bytes) >= 1
        /\ log[i].bytes[1] \in DocumentedPointers

\* C7 witness: after a construction and a resolution change, readDeviceID has
\* written the pointer 0xFF.
C7_Witness ==
    /\ Finished /\ cur.op = "readDeviceID" /\ outcome = "ok"
    /\ prev.op = "setTemperatureResolution"
    /\ log[1].kind = "write" /\ log[1].bytes = <<255>>

----------------------------------------------------------------------------
(* C8 *)

\* C8: a failed bus transfer is the last transport call of its operation (it
\* is not retried and nothing follows it), the operation has ended with the
\* transport's error and has returned no value.
C8_FailurePropagates ==
    \A i \in 1 .. Len(log) :
        ~log[i].ok =>
            /\ i = Len(log)
            /\ pc # "running"
            /\ outcome = "OSError"
            /\ ~returned
            /\ retval = None

\* C8 witness: the read of the third cycle of readSerialNumber has failed after
\* two good cycles.
C8_Witness ==
    /\ cur.op = "readSerialNumber" /\ Len(log) = 6
    /\ log[6].kind = "read" /\ ~log[6].ok
    /\ \A i \in 1 .. 5 : log[i].ok
    /\ outcome = "OSError"

----------------------------------------------------------------------------
(* C9 *)

----------------------------------------------------------------------------
(* C10 *)

\* the register a method returning a raw register word selects
SelectedRegister(op) ==
    CASE op = "read_configuration_register" -> 2
      [] op = "readManufacturerID" -> 254
      [] op = "readDeviceID" -> 255
      [] OTHER -> 0

\* C10: every bus read is immediately preceded, in the same operation, by a
\* successful one-byte pointer write to the same address, and it returns the
\* content of the register that write selected; so a method returning a raw
\* register word returns the content of its own register, whatever ran before.
C10_ReadFollowsOwnPointer ==
    /\ \A i \in ReadIdx :
          /\ i > 1
          /\ log[i - 1].kind = "write"
          /\ Len(log[i - 1].bytes) = 1
          /\ log[i - 1].ok
          /\ log[i - 1].addr = log[i].addr
          /\ log[i].ok => log[i].bytes = ToBytesBig(RegValue(log[i - 1].bytes[1]))
    /\ (returned /\ cur.op \in {"read_configuration_register",
                                "readManufacturerID", "readDeviceID"}) =>
          retval = IntVal(regs[SelectedRegister(cur.op)])

\* C10 witness: read_configuration_register, run right after readDeviceID left
\* the device's pointer at 0xFF, has returned the configuration word.
C10_Witness ==
    /\ cur.op = "read_configuration_register" /\ returned
    /\ prev.op = "readDeviceID" /\ prev.outcome = "ok"
    /\ retval = IntVal(4096)
    /\ log[2].bytes = <<16, 0>>

====
